---- MODULE Spec2Model ----
(***************************************************************************)
(* Model of the task-orchestration helpers of the Lightning/Hydra template *)
(* (src/src/utils/*.py, src/src/train.py, src/src/eval.py).                 *)
(*                                                                         *)
(* One process is modelled.  Its process-wide state is the rank stored on  *)
(* rank_zero_only and the effective level of the standard logger.  Every   *)
(* operation of the helpers is one action that runs the whole procedure    *)
(* and leaves, as observations, the ordered trace of its side effects, the *)
(* exception that left the call and the value it returned.                 *)
(*                                                                         *)
(* The names train.py and eval.py import from the utils package are taken  *)
(* to be the functions of those names defined in utils/instantiators.py,   *)
(* utils/persistence.py, utils/ranked_logger.py and utils/task_helpers.py. *)
(***************************************************************************)
EXTENDS Integers, Sequences, FiniteSets, TLC

VARIABLES rank, effectiveLevel, op, inp, tr, exc, innerExc, ret

vars == <<rank, effectiveLevel, op, inp, tr, exc, innerExc, ret>>

(***************************************************************************)
(* Bounds of the model.                                                    *)
(***************************************************************************)
MaxRank == 1
MaxFields == 2
MaxBlocks == 3
MaxLoggers == 2
MaxParams == 2

Ranks == 0..MaxRank

(***************************************************************************)
(* Severities of the standard logging facility.                            *)
(***************************************************************************)
INFO == 20
WARNING == 30
ERROR == 40

(* Effective levels of the logger: each used severity, and one above all. *)
Thresholds == {INFO, WARNING, ERROR, ERROR + 10}

(***************************************************************************)
(* Events of a trace, exceptions and procedure results.                    *)
(***************************************************************************)
(* An event: its kind, a number (severity of a log record, index of an     *)
(* object or experiment logger), a label and the content written.          *)
Event(kind, num, what, body) == [k |-> kind, n |-> num, what |-> what, body |-> body]

Rec(level, what) == Event("log", level, what, <<>>)

Ev(kind, what) == Event(kind, 0, what, <<>>)

NoExc == [type |-> "none", origin |-> "none"]

Exc(type, origin) == [type |-> type, origin |-> origin]

Res(trace, e, value) == [tr |-> trace, exc |-> e, ret |-> value]

Ok(trace) == Res(trace, NoExc, <<>>)

Raise(trace, type, origin) == Res(trace, Exc(type, origin), <<>>)

(* An exception is propagating: the statements that follow do not run. *)
Raised(a) == a.exc # NoExc

(* Exception types that are BaseException but not Exception. *)
BaseOnly == {"KeyboardInterrupt", "SystemExit"}

(***************************************************************************)
(* rank_zero_only: the decorated body runs on rank zero only; on any other *)
(* rank the call returns the default without touching anything.            *)
(***************************************************************************)
(* The gate dropped: the body runs on every rank. *)
rank_zero_only_ungated(r, body, default) == body

rank_zero_only(r, body, default) == IF r = 0 THEN body ELSE default

(***************************************************************************)
(* RankedLogger.log(level, msg).  kw is TRUE when the caller passes a      *)
(* keyword argument: the method accepts none, so the call itself fails.    *)
(***************************************************************************)
isEnabledFor(thr, level) == level >= thr

log_body(thr, level, what, kw, trace) ==
    IF kw
    THEN Raise(trace, "TypeError", "log")
    ELSE IF ~isEnabledFor(thr, level)
         THEN Ok(trace)
         ELSE Ok(Append(trace, Rec(level, what)))

log(r, thr, level, what, kw, trace) ==
    rank_zero_only(r, log_body(thr, level, what, kw, trace), Ok(trace))

(* The LoggerAdapter methods the helpers call; each delegates to log.      *)
info(r, thr, what, trace) == log(r, thr, INFO, what, FALSE, trace)

warning(r, thr, what, trace) == log(r, thr, WARNING, what, FALSE, trace)

error(r, thr, what, trace) == log(r, thr, ERROR, what, FALSE, trace)

(* exception(msg) delegates with the keyword exc_info=True. *)
exception(r, thr, what, trace) == log(r, thr, ERROR, what, TRUE, trace)

(***************************************************************************)
(* Configuration access.  The path settings are interpolations of the run  *)
(* directory: reading one raises when the interpolation cannot be resolved.*)
(***************************************************************************)
PathRead(cfg, trace) ==
    IF cfg.pathsResolve
    THEN Ok(trace)
    ELSE Raise(trace, "InterpolationResolutionError", "cfg")

(***************************************************************************)
(* exception_wrapper.wrap: inner is the result of task_func(cfg).          *)
(***************************************************************************)
wrap_except(r, thr, inner) ==
    IF inner.exc = NoExc \/ inner.exc.type \in BaseOnly
    THEN inner
    ELSE LET l == exception(r, thr, "exception", inner.tr)
         IN  IF l.exc # NoExc THEN l ELSE Res(l.tr, inner.exc, <<>>)

wrap_finally(r, thr, cfg, pending) ==
    LET p == PathRead(cfg, pending.tr)
    IN  IF p.exc # NoExc
        THEN p
        ELSE LET l == info(r, thr, "outdir", pending.tr)
             IN  IF l.exc # NoExc THEN l ELSE Res(l.tr, pending.exc, pending.ret)

exception_wrapper(r, thr, cfg, inner) ==
    wrap_finally(r, thr, cfg, wrap_except(r, thr, inner))

(***************************************************************************)
(* Component instantiators.  A block configuration is absent, a DictConfig *)
(* of blocks (possibly empty), a plain dict of blocks (it has values() but *)
(* is no DictConfig) or some other non-empty value without values() (a     *)
(* string, a number, a list).  A block is a DictConfig with the _target_   *)
(* field ("target"; "bad" when its construction raises), a DictConfig      *)
(* without it ("plain") or a value that is no DictConfig ("scalar").       *)
(***************************************************************************)
BlockKinds == {"target", "plain", "scalar", "bad"}

Absent == [shape |-> "absent", blocks |-> <<>>]

Mapping(blocks) == [shape |-> "mapping", blocks |-> blocks]

Dict(blocks) == [shape |-> "dict", blocks |-> blocks]

Other == [shape |-> "other", blocks |-> <<>>]

(* Truth value of a configuration: None and the empty mapping are false. *)
Truthy(c) == c.shape = "other" \/ (c.shape \in {"mapping", "dict"} /\ c.blocks # <<>>)

(* The selector test dropped: every mapping block is instantiated. *)
HasTarget_any_mapping(kind) == kind # "scalar"

HasTarget(kind) == kind \in {"target", "bad"}

(* hydra.utils.instantiate(conf) on block i: the object or the failure. *)
instantiate(what, kind, i, trace) ==
    IF kind = "bad"
    THEN Raise(trace, "InstantiationException", what)
    ELSE Res(Append(trace, Event("construct", i, what, <<>>)), NoExc, <<i>>)

RECURSIVE InstantiateAll(_, _, _, _, _, _, _)
InstantiateAll(r, thr, what, blocks, i, trace, acc) ==
    IF i > Len(blocks)
    THEN Res(trace, NoExc, acc)
    ELSE IF HasTarget(blocks[i])
         THEN LET l == info(r, thr, "instantiating", trace)
                  o == instantiate(what, blocks[i], i, l.tr)
              IN  IF o.exc # NoExc
                  THEN o
                  ELSE InstantiateAll(r, thr, what, blocks, i + 1, o.tr, acc \o o.ret)
         ELSE InstantiateAll(r, thr, what, blocks, i + 1, trace, acc)

instantiate_callbacks(r, thr, c, trace) ==
    IF ~Truthy(c)
    THEN Res(warning(r, thr, "no_callbacks", trace).tr, NoExc, <<>>)
    ELSE IF c.shape # "mapping"
         THEN Raise(trace, "TypeError", "instantiate_callbacks")
         ELSE InstantiateAll(r, thr, "callback", c.blocks, 1, trace, <<>>)

(* No type check here: whatever has values() is iterated, and a value     *)
(* without values() fails on the attribute.                               *)
instantiate_exp_loggers(r, thr, c, trace) ==
    IF ~Truthy(c)
    THEN Res(warning(r, thr, "no_loggers", trace).tr, NoExc, <<>>)
    ELSE IF c.shape = "other"
         THEN Raise(trace, "AttributeError", "instantiate_exp_loggers")
         ELSE InstantiateAll(r, thr, "logger", c.blocks, 1, trace, <<>>)

(***************************************************************************)
(* Run artifact persister.  A top-level entry of the configuration is a    *)
(* nested mapping or a scalar, and its interpolations resolve or fail.     *)
(* The paths group is the last entry; it resolves iff the path settings do.*)
(***************************************************************************)
FieldKinds == {"map", "map_fail", "scalar", "scalar_fail"}

TreeFields(cfg) == cfg.fields \o <<IF cfg.pathsResolve THEN "map" ELSE "map_fail">>

RECURSIVE RenderFields(_, _, _, _, _, _)
RenderFields(r, thr, fields, i, trace, tree) ==
    IF i > Len(fields)
    THEN Res(trace, NoExc, tree)
    ELSE IF fields[i] = "scalar_fail"
         THEN Raise(trace, "InterpolationKeyError", "cfg")
         ELSE IF fields[i] = "map"
              THEN RenderFields(r, thr, fields, i + 1, trace, Append(tree, "resolved"))
              ELSE IF fields[i] = "map_fail"
                   THEN RenderFields(r, thr, fields, i + 1,
                                     warning(r, thr, "resolve_failed", trace).tr,
                                     Append(tree, "unresolved"))
                   ELSE RenderFields(r, thr, fields, i + 1, trace, Append(tree, "str"))

create_config_tree(r, thr, cfg, trace) ==
    RenderFields(r, thr, TreeFields(cfg), 1, trace, <<>>)

save_config_body(thr, cfg, trace) ==
    LET t == create_config_tree(0, thr, cfg, trace)
    IN  IF t.exc # NoExc
        THEN Res(t.tr, t.exc, <<>>)
        ELSE LET c == Append(t.tr, Event("console", 0, "config", t.ret))
                 p == PathRead(cfg, c)
             IN  IF p.exc # NoExc
                 THEN p
                 ELSE Ok(Append(c, Event("file", 0, "config", t.ret)))

save_config(r, thr, cfg, trace) ==
    rank_zero_only(r, save_config_body(thr, cfg, trace), Ok(trace))

(* The tags check dropped: absent tags are written like any other. *)
save_tags_body_unchecked(thr, cfg, trace) ==
    LET l == info(0, thr, "tags", trace)
        p == PathRead(cfg, l.tr)
    IN  IF p.exc # NoExc
        THEN p
        ELSE Ok(Append(l.tr, Event("file", 0, "tags", <<cfg.tags>>)))

save_tags_body(thr, cfg, trace) ==
    IF cfg.tags = "none"
    THEN Raise(trace, "ValueError", "save_tags")
    ELSE LET l == info(0, thr, "tags", trace)
             p == PathRead(cfg, l.tr)
         IN  IF p.exc # NoExc
             THEN p
             ELSE Ok(Append(l.tr, Event("file", 0, "tags", <<cfg.tags>>)))

save_tags(r, thr, cfg, trace) ==
    rank_zero_only(r, save_tags_body(thr, cfg, trace), Ok(trace))

(***************************************************************************)
(* log_hyperparameters.  od is the object dictionary: the keys it holds,   *)
(* the configuration, whether the model entry is a LightningModule, the    *)
(* model's parameters (element count, gradient flag) and the number of     *)
(* experiment loggers attached to the trainer.                             *)
(***************************************************************************)
RequiredKeys == {"cfg", "model", "trainer"}

Resolves(cfg) == \A i \in 1..Len(TreeFields(cfg)) : TreeFields(cfg)[i] \in {"map", "scalar"}

(* OmegaConf.to_container(cfg, resolve=True) visits the entries in order and *)
(* raises the error of the first one that cannot be resolved: a field's    *)
(* InterpolationKeyError, or the error reading a path setting raises.      *)
ResolveError(cfg) ==
    IF \E i \in DOMAIN cfg.fields : cfg.fields[i] \in {"map_fail", "scalar_fail"}
    THEN "InterpolationKeyError"
    ELSE PathRead(cfg, <<>>).exc.type

RECURSIVE TotalParams(_)
TotalParams(params) ==
    IF params = <<>> THEN 0 ELSE Head(params).numel + TotalParams(Tail(params))

RECURSIVE TrainableParams(_)
TrainableParams(params) ==
    IF params = <<>>
    THEN 0
    ELSE (IF Head(params).grad THEN Head(params).numel ELSE 0)
         + TrainableParams(Tail(params))

Hparams(od) ==
    <<Len(TreeFields(od.cfg)), TotalParams(od.params), TrainableParams(od.params),
      TotalParams(od.params) - TrainableParams(od.params)>>

RECURSIVE SubmitAll(_, _, _, _)
SubmitAll(n, i, hparams, trace) ==
    IF i > n
    THEN trace
    ELSE SubmitAll(n, i + 1, hparams, Append(trace, Event("submit", i, "hparams", hparams)))

(* The key validation dropped: the hyperparameters are submitted anyway. *)
log_hyperparameters_body_unchecked(thr, od, trace) ==
    IF od.nloggers = 0
    THEN Ok(trace)
    ELSE Ok(SubmitAll(od.nloggers, 1, Hparams(od),
                      info(0, thr, "logging_hparams", trace).tr))

log_hyperparameters_body(thr, od, trace) ==
    IF RequiredKeys \ od.keys # {}
    THEN Ok(error(0, thr, "missing_keys", trace).tr)
    ELSE IF od.nloggers = 0
         THEN Ok(warning(0, thr, "no_exp_loggers", trace).tr)
         ELSE IF ~Resolves(od.cfg)
              THEN Raise(trace, ResolveError(od.cfg), "cfg")
              ELSE IF ~od.modelIsModule
                   THEN Raise(trace, "AssertionError", "log_hyperparameters")
                   ELSE Ok(SubmitAll(od.nloggers, 1, Hparams(od),
                                     info(0, thr, "logging_hparams", trace).tr))

log_hyperparameters(r, thr, od, trace) ==
    rank_zero_only(r, log_hyperparameters_body(thr, od, trace), Ok(trace))

(***************************************************************************)
(* Calls into the external framework made by the entry points: each either *)
(* takes effect or is the one call of the run that raises (env.failAt).    *)
(***************************************************************************)
FailPoints == {"none", "model", "fit", "test"}

construct(env, what, trace) ==
    IF env.failAt = what
    THEN Raise(trace, "InstantiationException", what)
    ELSE Ok(Append(trace, Event("construct", 0, what, <<>>)))

phase(env, what, ckpt, trace) ==
    IF env.failAt = what
    THEN Raise(Append(trace, Event(what, 0, ckpt, <<>>)), "RuntimeError", what)
    ELSE Ok(Append(trace, Event(what, 0, ckpt, <<>>)))

ObjectDict(cfg, env, exp_loggers) ==
    [keys |-> RequiredKeys, cfg |-> cfg, modelIsModule |-> TRUE,
     params |-> env.params, nloggers |-> Len(exp_loggers)]

(* The statements every entry point shares: datamodule, model, callbacks,  *)
(* experiment loggers, trainer, hyperparameter logging.  Each statement is *)
(* an operator on the result of the statements before it.                  *)
log_if_loggers(r, thr, cfg, env, exp_loggers, tn) ==
    IF Raised(tn) \/ exp_loggers = <<>>
    THEN tn
    ELSE log_hyperparameters(r, thr, ObjectDict(cfg, env, exp_loggers),
                             info(r, thr, "logging_hyperparameters", tn.tr).tr)

build_trainer(r, thr, cfg, env, lg) ==
    IF Raised(lg)
    THEN lg
    ELSE log_if_loggers(r, thr, cfg, env, lg.ret,
             construct(env, "trainer", info(r, thr, "instantiating_trainer", lg.tr).tr))

build_loggers(r, thr, cfg, env, logger_cfg, cb) ==
    IF Raised(cb)
    THEN cb
    ELSE build_trainer(r, thr, cfg, env,
             instantiate_exp_loggers(r, thr, logger_cfg,
                 info(r, thr, "instantiating_loggers", cb.tr).tr))

build_callbacks(r, thr, cfg, env, logger_cfg, md) ==
    IF Raised(md)
    THEN md
    ELSE build_loggers(r, thr, cfg, env, logger_cfg,
             instantiate_callbacks(r, thr, cfg.callbacks,
                 info(r, thr, "instantiating_callbacks", md.tr).tr))

build_model(r, thr, cfg, env, logger_cfg, dm) ==
    IF Raised(dm)
    THEN dm
    ELSE build_callbacks(r, thr, cfg, env, logger_cfg,
             construct(env, "model", info(r, thr, "instantiating_model", dm.tr).tr))

build_objects(r, thr, cfg, env, logger_cfg, trace) ==
    build_model(r, thr, cfg, env, logger_cfg,
        construct(env, "data", info(r, thr, "instantiating_datamodule", trace).tr))

(* train, lines 76-78: the fit phase. *)
run_fit(r, thr, cfg, env, trace) ==
    IF cfg.train
    THEN phase(env, "fit", cfg.ckpt_path, info(r, thr, "starting_training", trace).tr)
    ELSE Ok(trace)

(* train, lines 91-92: the test call and the log that follows it. *)
test_and_log(r, thr, env, ckpt, trace) ==
    LET t == phase(env, "test", ckpt, trace)
    IN  IF Raised(t) THEN t ELSE info(r, thr, "best_ckpt_path", t.tr)

(* The checkpoint-callback requirement dropped: the test phase runs on the *)
(* current weights without a warning.                                     *)
run_test_unchecked(r, thr, cfg, env, trace) ==
    IF ~cfg.test
    THEN Ok(trace)
    ELSE test_and_log(r, thr, env, IF env.ckptCb = "best" THEN "best" ELSE "none",
                      info(r, thr, "starting_testing", trace).tr)

(* train, lines 82-92: the test phase. *)
run_test(r, thr, cfg, env, trace) ==
    IF ~cfg.test
    THEN Ok(trace)
    ELSE IF env.ckptCb = "none"
         THEN Raise(info(r, thr, "starting_testing", trace).tr, "ValueError", "train")
         ELSE IF env.ckptCb = "empty"
              THEN test_and_log(r, thr, env, "none",
                       warning(r, thr, "best_ckpt_not_found",
                               info(r, thr, "starting_testing", trace).tr).tr)
              ELSE test_and_log(r, thr, env, "best",
                                info(r, thr, "starting_testing", trace).tr)

train_test(r, thr, cfg, env, ft) ==
    IF Raised(ft) THEN ft ELSE run_test(r, thr, cfg, env, ft.tr)

train_fit(r, thr, cfg, env, ob) ==
    IF Raised(ob) THEN ob ELSE train_test(r, thr, cfg, env, run_fit(r, thr, cfg, env, ob.tr))

train_build(r, thr, cfg, env, c) ==
    IF Raised(c)
    THEN c
    ELSE train_fit(r, thr, cfg, env, build_objects(r, thr, cfg, env, cfg.logger, c.tr))

train_save_config(r, thr, cfg, env, p) ==
    IF Raised(p)
    THEN p
    ELSE train_build(r, thr, cfg, env,
             save_config(r, thr, cfg, info(r, thr, "saving_config", p.tr).tr))

train_config_path(r, thr, cfg, env, t) ==
    IF Raised(t) THEN t ELSE train_save_config(r, thr, cfg, env, PathRead(cfg, t.tr))

train_save_tags(r, thr, cfg, env, p) ==
    IF Raised(p)
    THEN p
    ELSE train_config_path(r, thr, cfg, env,
             save_tags(r, thr, cfg, info(r, thr, "saving_tags", p.tr).tr))

train(r, thr, cfg, env, trace) ==
    train_save_tags(r, thr, cfg, env,
        PathRead(cfg, IF cfg.seed
                      THEN Append(trace, Ev("seed", "seed_everything"))
                      ELSE trace))

(* eval.py, lines 61-62: the test phase. *)
evaluate_test(r, thr, cfg, env, ob) ==
    IF Raised(ob)
    THEN ob
    ELSE phase(env, "test", cfg.ckpt_path, info(r, thr, "starting_testing", ob.tr).tr)

(* The checkpoint-path requirement dropped. *)
evaluate_unchecked(r, thr, cfg, env, trace) ==
    evaluate_test(r, thr, cfg, env, build_objects(r, thr, cfg, env, cfg.loggers, trace))

evaluate(r, thr, cfg, env, trace) ==
    IF cfg.ckpt_path \in {"none", "empty"}
    THEN Raise(trace, "AssertionError", "evaluate")
    ELSE evaluate_test(r, thr, cfg, env,
                       build_objects(r, thr, cfg, env, cfg.loggers, trace))

(***************************************************************************)
(* process_extras.  The extras setting is absent (or empty), a DictConfig  *)
(* with or without a true ignore_warnings, or some other non-empty value.  *)
(***************************************************************************)
Extras ==
    {[shape |-> "absent", ignore_warnings |-> FALSE],
     [shape |-> "other", ignore_warnings |-> FALSE],
     [shape |-> "mapping", ignore_warnings |-> FALSE],
     [shape |-> "mapping", ignore_warnings |-> TRUE]}

process_extras(r, thr, extras, trace) ==
    IF extras.shape = "absent"
    THEN Ok(info(r, thr, "no_extras", trace).tr)
    ELSE IF extras.shape # "mapping"
         THEN Raise(trace, "AssertionError", "process_extras")
         ELSE IF extras.ignore_warnings
              THEN Ok(Append(info(r, thr, "disabling_warnings", trace).tr,
                             Ev("filterwarnings", "ignore")))
              ELSE Ok(trace)

(***************************************************************************)
(* get_metric_value.  The metric dictionary, seen from the requested name: *)
(* the name is missing, or its value is no tensor, a tensor of several     *)
(* elements or a tensor of one element holding the number value.           *)
(***************************************************************************)
MetricStates == {"missing", "not_tensor", "multi", "scalar"}

Metrics == [state : MetricStates, value : {1, 2}]

get_metric_value(r, thr, metric, trace) ==
    IF metric.state = "missing"
    THEN Raise(trace, "Exception", "get_metric_value")
    ELSE IF metric.state = "not_tensor"
         THEN Raise(trace, "AssertionError", "get_metric_value")
         ELSE IF metric.state = "multi"
              THEN Raise(trace, "RuntimeError", "item")
              ELSE Res(info(r, thr, "metric_value", trace).tr, NoExc, <<metric.value>>)

(***************************************************************************)
(* The entry points.  named is TRUE when optimized_metric is set.          *)
(***************************************************************************)
(* train.py, lines 117-122. *)
main_train_metric(r, thr, named, metric, t) ==
    IF Raised(t)
    THEN t
    ELSE IF ~named THEN Ok(t.tr) ELSE get_metric_value(r, thr, metric, t.tr)

(* train.py, line 114. *)
main_train_task(r, thr, cfg, env, named, metric, pe) ==
    IF Raised(pe)
    THEN pe
    ELSE main_train_metric(r, thr, named, metric,
             exception_wrapper(r, thr, cfg, train(r, thr, cfg, env, pe.tr)))

main_train(r, thr, cfg, env, extras, named, metric, trace) ==
    main_train_task(r, thr, cfg, env, named, metric, process_extras(r, thr, extras, trace))

(* eval.py, line 82: the value evaluate returns is dropped. *)
main_eval_done(t) == IF Raised(t) THEN t ELSE Ok(t.tr)

main_eval_task(r, thr, cfg, env, pe) ==
    IF Raised(pe)
    THEN pe
    ELSE main_eval_done(exception_wrapper(r, thr, cfg, evaluate(r, thr, cfg, env, pe.tr)))

main_eval(r, thr, cfg, env, extras, trace) ==
    main_eval_task(r, thr, cfg, env, process_extras(r, thr, extras, trace))

(***************************************************************************)
(* Inputs.                                                                 *)
(***************************************************************************)
SeqsUpTo(S, n) == UNION {[1..k -> S] : k \in 0..n}

BlockCfgs ==
    {Absent, Other}
    \cup {Mapping(b) : b \in SeqsUpTo(BlockKinds, MaxBlocks)}
    \cup {Dict(b) : b \in SeqsUpTo(BlockKinds, MaxBlocks)}

FieldSeqs == SeqsUpTo(FieldKinds, MaxFields)

Params == [numel : {5, 10}, grad : BOOLEAN]

ParamSeqs == SeqsUpTo(Params, MaxParams)

(* Configurations the entry points are run on. *)
TaskBlockCfgs == {Absent, Other, Mapping(<<"plain", "target">>), Mapping(<<"bad">>)}

TaskFieldSeqs == {<<"map", "scalar">>, <<"map_fail", "scalar">>, <<"scalar_fail", "map">>}

TaskParams == <<[numel |-> 10, grad |-> TRUE], [numel |-> 5, grad |-> FALSE]>>

BaseCfg ==
    [seed |-> FALSE, tags |-> "some", pathsResolve |-> TRUE, fields |-> <<"map", "scalar">>,
     callbacks |-> Absent, logger |-> Absent, loggers |-> Absent,
     train |-> FALSE, test |-> FALSE, ckpt_path |-> "none"]

BaseEnv == [failAt |-> "none", ckptCb |-> "none", params |-> TaskParams]

TrainCfgs ==
    {[BaseCfg EXCEPT !.seed = sd, !.tags = tg, !.pathsResolve = pr, !.fields = fs,
                     !.callbacks = cb, !.logger = lg, !.train = tn, !.test = ts,
                     !.ckpt_path = ck] :
        sd \in BOOLEAN, tg \in {"none", "some"}, pr \in BOOLEAN, fs \in TaskFieldSeqs,
        cb \in TaskBlockCfgs, lg \in TaskBlockCfgs, tn \in BOOLEAN, ts \in BOOLEAN,
        ck \in {"none", "path"}}

EvalCfgs ==
    {[BaseCfg EXCEPT !.pathsResolve = pr, !.fields = fs, !.callbacks = cb,
                     !.loggers = lg, !.ckpt_path = ck] :
        pr \in BOOLEAN, fs \in TaskFieldSeqs, cb \in TaskBlockCfgs, lg \in TaskBlockCfgs,
        ck \in {"none", "empty", "path"}}

Envs == {[BaseEnv EXCEPT !.failAt = f, !.ckptCb = c] :
            f \in FailPoints, c \in {"none", "empty", "best"}}

(* Configurations and environments the entry points main are run on. *)
MainTrainCfgs ==
    {[BaseCfg EXCEPT !.tags = tg, !.logger = lg, !.train = tn, !.test = ts] :
        tg \in {"none", "some"}, lg \in TaskBlockCfgs, tn \in BOOLEAN, ts \in BOOLEAN}

MainEvalCfgs ==
    {[BaseCfg EXCEPT !.loggers = lg, !.ckpt_path = ck] :
        lg \in TaskBlockCfgs, ck \in {"none", "path"}}

MainEnvs == {[BaseEnv EXCEPT !.failAt = f, !.ckptCb = "best"] : f \in {"none", "fit", "test"}}

(* What a wrapped task procedure does: return, or raise one of these. *)
TaskOutcomes == {"return", "RuntimeError", "ValueError", "KeyboardInterrupt"}

task_func(outcome, trace) ==
    IF outcome = "return"
    THEN Ok(Append(trace, Ev("task", "return")))
    ELSE Raise(Append(trace, Ev("task", "raise")), outcome, "task")

(***************************************************************************)
(* State machine.                                                          *)
(***************************************************************************)
NoInput == [none |-> TRUE]

Init ==
    /\ rank \in Ranks
    /\ effectiveLevel \in Thresholds
    /\ op = "idle"
    /\ inp = NoInput
    /\ tr = <<>>
    /\ exc = NoExc
    /\ innerExc = NoExc
    /\ ret = <<>>

(* A call of operation o with input i whose result is res. *)
Finish(o, i, res, inner) ==
    /\ op' = o
    /\ inp' = i
    /\ tr' = res.tr
    /\ exc' = res.exc
    /\ ret' = res.ret
    /\ innerExc' = inner
    /\ UNCHANGED <<rank, effectiveLevel>>

CallLog ==
    /\ op = "idle"
    /\ \E level \in {INFO, WARNING, ERROR} :
        Finish("log", [level |-> level],
               log(rank, effectiveLevel, level, "msg", FALSE, <<>>), NoExc)

CallSaveConfig ==
    /\ op = "idle"
    /\ \E fs \in FieldSeqs, pr \in BOOLEAN :
        LET cfg == [BaseCfg EXCEPT !.fields = fs, !.pathsResolve = pr]
        IN  Finish("save_config", [cfg |-> cfg],
                   save_config(rank, effectiveLevel, cfg, <<>>), NoExc)

CallSaveTags ==
    /\ op = "idle"
    /\ \E tg \in {"none", "some"}, pr \in BOOLEAN :
        LET cfg == [BaseCfg EXCEPT !.tags = tg, !.pathsResolve = pr]
        IN  Finish("save_tags", [cfg |-> cfg],
                   save_tags(rank, effectiveLevel, cfg, <<>>), NoExc)

CallLogHyperparameters ==
    /\ op = "idle"
    /\ \E keys \in SUBSET RequiredKeys, n \in 0..MaxLoggers, m \in BOOLEAN,
       ps \in ParamSeqs, fs \in TaskFieldSeqs, pr \in BOOLEAN :
        LET od == [keys |-> keys, cfg |-> [BaseCfg EXCEPT !.fields = fs, !.pathsResolve = pr],
                   modelIsModule |-> m, params |-> ps, nloggers |-> n]
        IN  Finish("log_hyperparameters", [od |-> od],
                   log_hyperparameters(rank, effectiveLevel, od, <<>>), NoExc)

CallInstantiateCallbacks ==
    /\ op = "idle"
    /\ \E c \in BlockCfgs :
        Finish("instantiate_callbacks", [c |-> c],
               instantiate_callbacks(rank, effectiveLevel, c, <<>>), NoExc)

CallInstantiateExpLoggers ==
    /\ op = "idle"
    /\ \E c \in BlockCfgs :
        Finish("instantiate_exp_loggers", [c |-> c],
               instantiate_exp_loggers(rank, effectiveLevel, c, <<>>), NoExc)

CallWrapped ==
    /\ op = "idle"
    /\ \E o \in TaskOutcomes, pr \in BOOLEAN :
        LET cfg == [BaseCfg EXCEPT !.pathsResolve = pr]
            inner == task_func(o, <<>>)
        IN  Finish("wrapped", [cfg |-> cfg, outcome |-> o],
                   exception_wrapper(rank, effectiveLevel, cfg, inner), inner.exc)

CallTrain ==
    /\ op = "idle"
    /\ \E cfg \in TrainCfgs, env \in Envs :
        LET inner == train(rank, effectiveLevel, cfg, env, <<>>)
        IN  Finish("train", [cfg |-> cfg, env |-> env],
                   exception_wrapper(rank, effectiveLevel, cfg, inner), inner.exc)

CallEvaluate ==
    /\ op = "idle"
    /\ \E cfg \in EvalCfgs, env \in Envs :
        LET inner == evaluate(rank, effectiveLevel, cfg, env, <<>>)
        IN  Finish("evaluate", [cfg |-> cfg, env |-> env],
                   exception_wrapper(rank, effectiveLevel, cfg, inner), inner.exc)

CallProcessExtras ==
    /\ op = "idle"
    /\ \E extras \in Extras :
        Finish("process_extras", [extras |-> extras],
               process_extras(rank, effectiveLevel, extras, <<>>), NoExc)

CallGetMetricValue ==
    /\ op = "idle"
    /\ \E metric \in Metrics :
        Finish("get_metric_value", [metric |-> metric],
               get_metric_value(rank, effectiveLevel, metric, <<>>), NoExc)

CallMainTrain ==
    /\ op = "idle"
    /\ \E cfg \in MainTrainCfgs, env \in MainEnvs, extras \in Extras,
          named \in BOOLEAN, metric \in Metrics :
        Finish("main_train",
               [cfg |-> cfg, env |-> env, extras |-> extras, named |-> named,
                metric |-> metric],
               main_train(rank, effectiveLevel, cfg, env, extras, named, metric, <<>>),
               NoExc)

CallMainEval ==
    /\ op = "idle"
    /\ \E cfg \in MainEvalCfgs, env \in MainEnvs, extras \in Extras :
        Finish("main_eval", [cfg |-> cfg, env |-> env, extras |-> extras],
               main_eval(rank, effectiveLevel, cfg, env, extras, <<>>), NoExc)

(* The caller takes the result; the process is ready for its next call. *)
Return ==
    /\ op # "idle"
    /\ op' = "idle"
    /\ inp' = NoInput
    /\ tr' = <<>>
    /\ exc' = NoExc
    /\ innerExc' = NoExc
    /\ ret' = <<>>
    /\ UNCHANGED <<rank, effectiveLevel>>

Next ==
    \/ CallLog
    \/ CallSaveConfig
    \/ CallSaveTags
    \/ CallLogHyperparameters
    \/ CallInstantiateCallbacks
    \/ CallInstantiateExpLoggers
    \/ CallWrapped
    \/ CallTrain
    \/ CallEvaluate
    \/ CallProcessExtras
    \/ CallGetMetricValue
    \/ CallMainTrain
    \/ CallMainEval
    \/ Return

Spec == Init /\ [][Next]_vars

(***************************************************************************)
(* Observations on the trace of the last call.                             *)
(***************************************************************************)
Events(kind) == {i \in DOMAIN tr : tr[i].k = kind}

Records(what) == {i \in DOMAIN tr : tr[i].k = "log" /\ tr[i].what = what}

Wrapped == {"wrapped", "train", "evaluate"}

Gated == {"log", "save_config", "save_tags"}

Instantiators == {"instantiate_callbacks", "instantiate_exp_loggers"}

(* Nothing was built, submitted or run. *)
NothingBuilt ==
    Events("construct") \cup Events("submit") \cup Events("fit") \cup Events("test") = {}

(***************************************************************************)
(* C1.  Every exception raised by the inner procedure of a wrapped call    *)
(* leaves the call as that same exception.  Stated for configurations      *)
(* whose output directory can be read, so that only the wrapper's logging  *)
(* of the exception record stands between the exception and the caller.    *)
(***************************************************************************)
C1_SameExceptionPropagates ==
    (op \in Wrapped /\ innerExc # NoExc /\ inp.cfg.pathsResolve) => exc = innerExc

(***************************************************************************)
(* C2.  On the process that logs (rank zero, INFO enabled, output          *)
(* directory readable) a wrapped call logs the output-directory message    *)
(* exactly once, and when the inner procedure raised an ordinary exception *)
(* an exception record precedes it and an exception leaves the call.       *)
(***************************************************************************)
C2_RecordThenOutputDirThenRaise ==
    (op \in Wrapped /\ rank = 0 /\ isEnabledFor(effectiveLevel, INFO)
        /\ inp.cfg.pathsResolve)
    => /\ Cardinality(Records("outdir")) = 1
       /\ (innerExc # NoExc /\ innerExc.type \notin BaseOnly)
          => /\ exc # NoExc
             /\ \E i \in Records("exception") : \A j \in Records("outdir") : i < j

EffectCount == Len(tr) + (IF exc # NoExc THEN 1 ELSE 0)

(***************************************************************************)
(* C3.  A call of a rank-gated operation on a non-zero rank has no effect  *)
(* at all, and a call on rank zero has exactly one effect (a log record, a *)
(* console write, a file write or an exception).                           *)
(***************************************************************************)
C3_ExactlyOneEffectOnRankZero ==
    op \in Gated => EffectCount = (IF rank = 0 THEN 1 ELSE 0)

(* C3 as amended: nothing on a non-zero rank; on rank zero each effect of  *)
(* the operation happens once: log emits one record when the level is      *)
(* enabled and none otherwise, a save_config that completes writes the     *)
(* tree once to the console and once to the config file, a save_tags that  *)
(* completes writes the tags file once and logs the tags once if INFO is   *)
(* enabled, and a save_tags without tags raises and writes nothing.        *)
C3_RankGate ==
    op \in Gated =>
        IF rank # 0
        THEN tr = <<>> /\ exc = NoExc /\ ret = <<>>
        ELSE /\ op = "log" =>
                /\ exc = NoExc
                /\ tr = IF inp.level >= effectiveLevel
                        THEN <<Rec(inp.level, "msg")>> ELSE <<>>
             /\ (op = "save_config" /\ exc = NoExc) =>
                /\ Cardinality(Events("console")) = 1
                /\ Cardinality(Events("file")) = 1
                /\ \A i \in Events("file") : tr[i].what = "config"
             /\ (op = "save_tags" /\ exc = NoExc) =>
                /\ Cardinality(Events("file")) = 1
                /\ \A i \in Events("file") : tr[i].what = "tags"
                /\ Cardinality(Records("tags"))
                      = (IF isEnabledFor(effectiveLevel, INFO) THEN 1 ELSE 0)
                /\ Len(tr) = Cardinality(Events("file")) + Cardinality(Records("tags"))
             /\ (op = "save_tags" /\ inp.cfg.tags = "none") =>
                /\ exc = Exc("ValueError", "save_tags")
                /\ tr = <<>>

C3_Witness ==
    /\ op = "save_config"
    /\ rank = 0
    /\ exc = NoExc
    /\ Cardinality(Events("console")) = 1
    /\ Cardinality(Events("file")) = 1

FailsFastOnTags ==
    /\ innerExc # NoExc
    /\ inp.cfg.pathsResolve => innerExc = Exc("ValueError", "save_tags")
    /\ Events("file") = {}
    /\ Events("console") = {}
    /\ NothingBuilt

(***************************************************************************)
(* C4.  Without tags, train fails before any file is written and before   *)
(* anything is built or run, in every process, and the failure is          *)
(* save_tags' configuration error whenever the path settings can be read.  *)
(***************************************************************************)
C4_FailFastInEveryProcess ==
    (op = "train" /\ inp.cfg.tags = "none") => FailsFastOnTags

(* C4 as amended: the same, in the rank-zero process. *)
C4_FailFastOnRankZero ==
    (op = "train" /\ inp.cfg.tags = "none" /\ rank = 0) => FailsFastOnTags

C4_Witness ==
    /\ op = "train"
    /\ rank = 0
    /\ inp.cfg.tags = "none"
    /\ innerExc = Exc("ValueError", "save_tags")
    /\ exc # NoExc

(***************************************************************************)
(* C5.  In train, a requested test without a checkpoint callback fails and *)
(* never invokes the test phase; an invoked test phase follows the fit     *)
(* phase when one was requested and gets the best checkpoint, or none,     *)
(* with a warning handed to the logger, when no best checkpoint exists.    *)
(***************************************************************************)
C5_TestPhase ==
    op = "train" =>
        /\ (inp.cfg.test /\ inp.env.ckptCb = "none") =>
              innerExc # NoExc /\ Events("test") = {}
        /\ \A j \in Events("test") :
              /\ inp.cfg.test
              /\ inp.cfg.train => \E i \in Events("fit") : i < j
              /\ inp.env.ckptCb = "best" => tr[j].what = "best"
              /\ inp.env.ckptCb = "empty" =>
                    /\ tr[j].what = "none"
                    /\ (rank = 0 /\ isEnabledFor(effectiveLevel, WARNING)) =>
                          \E i \in Records("best_ckpt_not_found") :
                              i < j /\ tr[i].n = WARNING

C5_Witness ==
    /\ op = "train"
    /\ rank = 0
    /\ inp.cfg.train
    /\ inp.env.ckptCb = "empty"
    /\ Events("fit") # {}
    /\ Events("test") # {}
    /\ Records("best_ckpt_not_found") # {}

(***************************************************************************)
(* C6.  evaluate without a checkpoint path (absent or empty) fails before  *)
(* anything is built, before hyperparameters are submitted and before the  *)
(* test phase.                                                             *)
(***************************************************************************)
C6_EvaluateNeedsCheckpoint ==
    (op = "evaluate" /\ inp.cfg.ckpt_path \in {"none", "empty"})
    => /\ innerExc = Exc("AssertionError", "evaluate")
       /\ exc # NoExc
       /\ NothingBuilt

C6_Witness ==
    /\ op = "evaluate"
    /\ inp.cfg.ckpt_path = "empty"
    /\ inp.cfg.loggers.shape = "mapping"
    /\ innerExc = Exc("AssertionError", "evaluate")

(***************************************************************************)
(* C7.  On an absent, empty or configuration-mapping (DictConfig) input an *)
(* instantiator that returns, returns one constructed object per block     *)
(* carrying the selector, in the mapping's order, and no other; it raises  *)
(* only when a construction fails, and never on an absent or empty input.  *)
(***************************************************************************)
C7_OnePerSelectorBlockInOrder ==
    (op \in Instantiators /\ (inp.c.shape \in {"absent", "mapping"} \/ ~Truthy(inp.c))) =>
        LET blocks == inp.c.blocks
        IN  /\ exc = NoExc =>
                /\ {ret[i] : i \in DOMAIN ret} = {i \in DOMAIN blocks : blocks[i] = "target"}
                /\ \A i, j \in DOMAIN ret : i < j => ret[i] < ret[j]
                /\ Cardinality(Events("construct")) = Len(ret)
            /\ exc # NoExc =>
                /\ exc.type = "InstantiationException"
                /\ \E i \in DOMAIN blocks : blocks[i] = "bad"
            /\ blocks = <<>> => exc = NoExc /\ ret = <<>>

C7_Witness ==
    /\ op = "instantiate_exp_loggers"
    /\ inp.c.shape = "mapping"
    /\ Len(inp.c.blocks) = 3
    /\ inp.c.blocks[1] = "plain"
    /\ ret = <<2, 3>>

(***************************************************************************)
(* C8.  A present input that is not a mapping makes either instantiator    *)
(* fail with a type error before any object is constructed.                *)
(***************************************************************************)
C8_TypeErrorOnNonMapping ==
    (op \in Instantiators /\ inp.c.shape = "other")
    => exc.type = "TypeError" /\ Events("construct") = {}

(***************************************************************************)
(* C9.  log_hyperparameters on an object dictionary lacking a required key *)
(* returns without raising and submits nothing, the error being handed to  *)
(* the logger; with all keys and no attached experiment logger it returns  *)
(* without raising and submits nothing, a warning being handed to the      *)
(* logger.                                                                 *)
(***************************************************************************)
C9_TelemetryGapsAreSkipped ==
    op = "log_hyperparameters" =>
        /\ RequiredKeys \ inp.od.keys # {} =>
              /\ exc = NoExc
              /\ Events("submit") = {}
              /\ rank = 0 =>
                    tr = IF isEnabledFor(effectiveLevel, ERROR)
                         THEN <<Rec(ERROR, "missing_keys")>> ELSE <<>>
        /\ (RequiredKeys \subseteq inp.od.keys /\ inp.od.nloggers = 0) =>
              /\ exc = NoExc
              /\ Events("submit") = {}
              /\ rank = 0 =>
                    tr = IF isEnabledFor(effectiveLevel, WARNING)
                         THEN <<Rec(WARNING, "no_exp_loggers")>> ELSE <<>>

C9_Witness ==
    /\ op = "log_hyperparameters"
    /\ rank = 0
    /\ inp.od.keys = {"cfg", "trainer"}
    /\ inp.od.nloggers > 0
    /\ ~inp.od.modelIsModule
    /\ tr = <<Rec(ERROR, "missing_keys")>>

Failing(fields) == {i \in DOMAIN fields : fields[i] \in {"map_fail", "scalar_fail"}}

(***************************************************************************)
(* C10.  save_config on a tree in which resolving some top-level entry     *)
(* fails still completes: the tree, with one branch per top-level key and  *)
(* the failing entries unresolved, is written to the console and to the    *)
(* config file, and a warning is logged for each failing entry.  Stated    *)
(* for configurations whose path settings resolve, so that the config file *)
(* can be named.                                                           *)
(***************************************************************************)
C10_RenderNeverAborts ==
    (op = "save_config" /\ rank = 0 /\ inp.cfg.pathsResolve
        /\ Failing(TreeFields(inp.cfg)) # {}) =>
        LET fields == TreeFields(inp.cfg)
        IN  /\ exc = NoExc
            /\ Events("console") # {}
            /\ Events("file") # {}
            /\ \A e \in Events("console") \cup Events("file") :
                  /\ Len(tr[e].body) = Len(fields)
                  /\ \A i \in Failing(fields) : tr[e].body[i] = "unresolved"
            /\ isEnabledFor(effectiveLevel, WARNING) =>
                  Cardinality(Records("resolve_failed")) = Cardinality(Failing(fields))

====
